---- MODULE Spec2Model ----
(***************************************************************************)
(* State-machine model of the graph editor component FlowEditor            *)
(* (rnd/autogpt_builder/src/components/Flow.tsx): the node and edge        *)
(* arrays, the nodeId counter, the clipboard, the drag bookkeeping and     *)
(* the undo/redo history, with one action per event handler.               *)
(*                                                                         *)
(* Strings are modelled as sequences of underscore-free tokens: the string *)
(* "1_out_2_in" is <<1, "out", 2, "in">>, and a template literal           *)
(* `${a}_${b}` is the concatenation a \o b.  A node id, the decimal text   *)
(* of a number, is the one-token string <<n>>.                             *)
(*                                                                         *)
(* The graph library (@xyflow/react) runs in controlled mode: addNodes,    *)
(* addEdges, deleteElements and updateNode compute a list of changes and   *)
(* hand it to the component's onNodesChange / onEdgesChange, which the     *)
(* model applies inside the same action.                                   *)
(***************************************************************************)
EXTENDS Integers, Sequences, FiniteSets, TLC

VARIABLES
    nodes,               \* useAgentGraph().nodes : array of CustomNode
    edges,               \* useAgentGraph().edges : array of CustomEdge
    nodeId,              \* useState<number>(1)
    copiedNodes,         \* useState<CustomNode[]>([])
    copiedEdges,         \* useState<CustomEdge[]>([])
    isAnyModalOpen,      \* useState(false)
    initialPositionRef,  \* useRef({}) : the set of [id, position] it maps
    isDragging,          \* useRef(false)
    past,                \* history: operations that can be undone
    future,              \* history: operations that can be redone
    dragging,            \* the node the pointer is dragging, or NoNode
    now,                 \* the clock read by Date.now()
    steps,               \* the number of events handled so far
    lastOp               \* the event handled last: [name, arg]

vars == <<nodes, edges, nodeId, copiedNodes, copiedEdges, isAnyModalOpen,
          initialPositionRef, isDragging, past, future, dragging, now, steps,
          lastOp>>

-----------------------------------------------------------------------------
(* Bounds of the model *)

\* the number of events of a session that the model follows
MaxSteps == 6

\* the number of events of an editing session (EditSpec)
MaxEditSteps == 7

(* Program constants *)

MINIMUM_MOVE_BEFORE_LOG == 50
PASTE_OFFSET == 20

Undefined == "undefined"
NoNode == <<>>

\* availableNodes: the block schemas loaded by useAgentGraph
availableNodes == {"block"}
\* block ids a caller may hand to addNode
BlockIds == {"block", "unknown"}

\* output and input handle names of the block schema
SourceHandles == {<<"out">>}
TargetHandles == {<<"in">>}

\* pointer / viewport positions the environment produces
Positions == { [x |-> 0, y |-> 0], [x |-> 30, y |-> 40], [x |-> 60, y |-> 80] }
ViewportCenters == { [x |-> 0, y |-> 0] }

-----------------------------------------------------------------------------
(* Sequence helpers *)

Map(f(_), s) == [i \in 1..Len(s) |-> f(s[i])]

Ids(s) == { s[i].id : i \in 1..Len(s) }

\* Number.prototype.toString: the decimal text of n, a one-token string
NumToString(n) == <<n>>

-----------------------------------------------------------------------------
(* The changes the graph library hands to onNodesChange / onEdgesChange *)

AddChange(it) == [type |-> "add", id |-> it.id, item |-> it]
RemoveChange(id) == [type |-> "remove", id |-> id]
ReplaceChange(it) == [type |-> "replace", id |-> it.id, item |-> it]
SelectChange(id, b) == [type |-> "select", id |-> id, selected |-> b]
PositionChange(id, p) == [type |-> "position", id |-> id, position |-> p]

OfType(changes, t) == SelectSeq(changes, LAMBDA c : c.type = t)

\* The changes kept for one element: a remove or replace change discards the
\* changes collected for that element before it.
ChangesFor(changes, id) ==
    LET cs == SelectSeq(changes, LAMBDA c : c.type # "add" /\ c.id = id)
        resets == { i \in 1..Len(cs) : cs[i].type \in {"remove", "replace"} }
        from == IF resets = {} THEN 1
                ELSE CHOOSE i \in resets : \A j \in resets : j <= i
    IN SubSeq(cs, from, Len(cs))

applyChange(c, el) ==
    IF c.type = "select" THEN [el EXCEPT !.selected = c.selected]
    ELSE IF c.type = "position" THEN [el EXCEPT !.position = c.position]
    ELSE el

RECURSIVE applyChangeList(_, _)
applyChangeList(cs, el) ==
    IF cs = <<>> THEN el ELSE applyChangeList(Tail(cs), applyChange(Head(cs), el))

RECURSIVE applyToElements(_, _)
applyToElements(changes, elements) ==
    IF elements = <<>> THEN <<>>
    ELSE LET el == Head(elements)
             cs == ChangesFor(changes, el.id)
             out == IF cs = <<>> THEN <<el>>
                    ELSE IF cs[1].type = "remove" THEN <<>>
                    ELSE IF cs[1].type = "replace" THEN <<cs[1].item>>
                    ELSE <<applyChangeList(cs, el)>>
         IN out \o applyToElements(changes, Tail(elements))

\* applyNodeChanges / applyEdgeChanges: every element with its changes applied,
\* then the added items appended
applyChanges(changes, elements) ==
    applyToElements(changes, elements)
        \o Map(LAMBDA c : c.item, OfType(changes, "add"))

\* The changes for the array [...store, ...newItems]: an item whose id the
\* store does not hold is added, an item whose id it holds replaces that one
appendChanges(newItems, store) ==
    Map(LAMBDA it : IF it.id \in Ids(store) THEN ReplaceChange(it)
                    ELSE AddChange(it), newItems)

-----------------------------------------------------------------------------
(* The component's callbacks, as functions of the store [nodes, edges] *)

ClearedNode(node) ==
    [node EXCEPT !.data.status = Undefined,
                 !.data.output_data = Undefined,
                 !.data.isOutputOpen = FALSE]

clearNodesStatusAndOutput(nds) == Map(ClearedNode, nds)

ConnectionOf(e) ==
    [edge_id |-> e.id, source |-> e.source, target |-> e.target,
     sourceHandle |-> e.sourceHandle, targetHandle |-> e.targetHandle]

onEdgesChange(S, edgeChanges) ==
    LET addedEdges == OfType(edgeChanges, "add")
        replaceEdges == OfType(edgeChanges, "replace")
        removedEdges == OfType(edgeChanges, "remove")
        removedIds == Ids(removedEdges)
        propagate == Len(addedEdges) > 0 \/ Len(removedEdges) > 0
        Propagated(node) ==
            [node EXCEPT !.data.connections =
                SelectSeq(@, LAMBDA conn : conn.edge_id \notin removedIds)
                    \o Map(LAMBDA c : ConnectionOf(c.item), addedEdges)]
        Reset(node) ==
            [node EXCEPT !.data.connections =
                Map(LAMBDA c : ConnectionOf(c.item), replaceEdges)]
        nodes1 == IF propagate THEN Map(Propagated, S.nodes) ELSE S.nodes
        nodes2 == IF propagate /\ Len(removedEdges) > 0
                  THEN clearNodesStatusAndOutput(nodes1) ELSE nodes1
        nodes3 == IF Len(replaceEdges) > 0
                  THEN clearNodesStatusAndOutput(Map(Reset, nodes2)) ELSE nodes2
    IN [nodes |-> nodes3, edges |-> applyChanges(edgeChanges, S.edges)]

\* deleteElements({ edges }): a remove change for every edge of the store
\* whose id is asked for; nothing when there is none
deleteEdges(S, edgeIds) ==
    LET matching == SelectSeq(S.edges, LAMBDA e : e.id \in edgeIds)
    IN IF matching = <<>> THEN S
       ELSE onEdgesChange(S, Map(LAMBDA e : RemoveChange(e.id), matching))

\* The `edges` onNodesChange reads: the array of the render that created the
\* callback (its dependencies, deleteElements and setNodes, never change)
capturedEdges == <<>>

RECURSIVE removeConnectedEdges(_, _)
removeConnectedEdges(S, removed) ==
    IF removed = <<>> THEN S
    ELSE LET nodeID == Head(removed).id
             connectedEdges ==
                SelectSeq(capturedEdges,
                          LAMBDA e : nodeID \in {e.source, e.target})
         IN removeConnectedEdges(deleteEdges(S, Ids(connectedEdges)),
                                 Tail(removed))

onNodesChange(S, nodeChanges) ==
    removeConnectedEdges(
        [S EXCEPT !.nodes = applyChanges(nodeChanges, S.nodes)],
        OfType(nodeChanges, "remove"))

onNodesDelete(S) == [S EXCEPT !.nodes = clearNodesStatusAndOutput(S.nodes)]

-----------------------------------------------------------------------------
(* useReactFlow(): the library's helpers in controlled mode *)

addNodes(S, newNodes) == onNodesChange(S, appendChanges(newNodes, S.nodes))

addEdges(S, newEdges) == onEdgesChange(S, appendChanges(newEdges, S.edges))

getNode(S, id) == CHOOSE n \in { S.nodes[i] : i \in 1..Len(S.nodes) } : n.id = id

\* deleteElements({ nodes, edges }): the edges asked for and the edges
\* connected to a removed node go first, then the nodes
deleteElements(S, nodeIds, edgeIds) ==
    LET matchingNodes == SelectSeq(S.nodes, LAMBDA n : n.id \in nodeIds)
        gone == Ids(matchingNodes)
        matchingEdges ==
            SelectSeq(S.edges, LAMBDA e : e.id \in edgeIds
                                          \/ e.source \in gone
                                          \/ e.target \in gone)
        S1 == IF matchingEdges = <<>> THEN S
              ELSE onEdgesChange(S, Map(LAMBDA e : RemoveChange(e.id),
                                        matchingEdges))
    IN IF matchingNodes = <<>> THEN S1
       ELSE onNodesChange(onNodesDelete(S1),
                          Map(LAMBDA n : RemoveChange(n.id), matchingNodes))

\* updateNode(id, { position }): the node, replaced by itself at the position
updateNode(S, id, position) ==
    onNodesChange(S,
        Map(LAMBDA n : ReplaceChange([n EXCEPT !.position = position]),
            SelectSeq(S.nodes, LAMBDA n : n.id = id)))

-----------------------------------------------------------------------------
(* history: the undo/redo stack *)

AddNodeEntry(newNode) == [type |-> "ADD_NODE", node |-> newNode]
AddEdgeEntry(newEdge) == [type |-> "ADD_EDGE", edge |-> newEdge]
MoveEntry(id, oldPosition, newPosition) ==
    [type |-> "UPDATE_NODE_POSITION", nodeId |-> id,
     oldPosition |-> oldPosition, newPosition |-> newPosition]

\* the undo closure of an entry
EntryUndo(S, a) ==
    IF a.type = "ADD_NODE" THEN deleteElements(S, {a.node.id}, {})
    ELSE IF a.type = "ADD_EDGE" THEN deleteElements(S, {}, {a.edge.id})
    ELSE updateNode(S, a.nodeId, a.oldPosition)

\* the redo closure of an entry
EntryRedo(S, a) ==
    IF a.type = "ADD_NODE" THEN addNodes(S, <<a.node>>)
    ELSE IF a.type = "ADD_EDGE" THEN addEdges(S, <<a.edge>>)
    ELSE updateNode(S, a.nodeId, a.newPosition)

\* history.push: the entry goes on top of the undo stack and the redo stack
\* is dropped
HistoryPush(a) == past' = Append(past, a) /\ future' = <<>>

Store == [nodes |-> nodes, edges |-> edges]

SetStore(S) == nodes' = S.nodes /\ edges' = S.edges

-----------------------------------------------------------------------------
(* Initial state: an empty graph *)

Op(name, arg) == [name |-> name, arg |-> arg]

Init ==
    /\ nodes = <<>>
    /\ edges = <<>>
    /\ nodeId = 1
    /\ copiedNodes = <<>>
    /\ copiedEdges = <<>>
    /\ isAnyModalOpen = FALSE
    /\ initialPositionRef = {}
    /\ isDragging = FALSE
    /\ past = <<>>
    /\ future = <<>>
    /\ dragging = NoNode
    /\ now = 1
    /\ steps = 0
    /\ lastOp = Op("init", <<>>)

-----------------------------------------------------------------------------
(* addNode *)

NewNode(blockId, viewportCenter) ==
    [id |-> NumToString(nodeId),
     position |-> viewportCenter,
     selected |-> FALSE,
     data |-> [block_id |-> blockId,
               status |-> Undefined,
               output_data |-> Undefined,
               isOutputOpen |-> FALSE,
               connections |-> <<>>]]

\* addNode without its history.push
AddNodeEffectNoPush(blockId, viewportCenter) ==
    LET newNode == NewNode(blockId, viewportCenter)
        S1 == addNodes(Store, <<newNode>>)
    IN /\ SetStore([S1 EXCEPT !.nodes = clearNodesStatusAndOutput(@)])
       /\ nodeId' = nodeId + 1
       /\ UNCHANGED <<past, future>>

AddNodeEffect(blockId, viewportCenter) ==
    LET newNode == NewNode(blockId, viewportCenter)
        S1 == addNodes(Store, <<newNode>>)
    IN /\ SetStore([S1 EXCEPT !.nodes = clearNodesStatusAndOutput(@)])
       /\ nodeId' = nodeId + 1
       /\ HistoryPush(AddNodeEntry(newNode))

\* addNode that builds a node from whatever block id it is given
AddNodeWithoutSchemaLookup ==
    \E blockId \in BlockIds, viewportCenter \in ViewportCenters :
        /\ AddNodeEffect(blockId, viewportCenter)
        /\ lastOp' = Op("addNode", <<blockId>>)
        /\ UNCHANGED <<copiedNodes, copiedEdges, isAnyModalOpen,
                       initialPositionRef, isDragging, dragging, now>>

\* a block id without a schema: console.error and return
AddNode ==
    \E blockId \in BlockIds, viewportCenter \in ViewportCenters :
        /\ IF blockId \notin availableNodes
           THEN UNCHANGED <<nodes, edges, nodeId, past, future>>
           ELSE AddNodeEffect(blockId, viewportCenter)
        /\ lastOp' = Op("addNode", <<blockId>>)
        /\ UNCHANGED <<copiedNodes, copiedEdges, isAnyModalOpen,
                       initialPositionRef, isDragging, dragging, now>>

-----------------------------------------------------------------------------
(* onConnect *)

formatEdgeID(conn) ==
    conn.source \o conn.sourceHandle \o conn.target \o conn.targetHandle

NewEdge(conn) ==
    [id |-> formatEdgeID(conn),
     source |-> conn.source,
     sourceHandle |-> conn.sourceHandle,
     target |-> conn.target,
     targetHandle |-> conn.targetHandle,
     selected |-> FALSE]

OnConnectEffect(conn) ==
    LET newEdge == NewEdge(conn)
        S1 == addEdges(Store, <<newEdge>>)
    IN /\ SetStore([S1 EXCEPT !.nodes = clearNodesStatusAndOutput(@)])
       /\ HistoryPush(AddEdgeEntry(newEdge))

OnConnect ==
    \E source \in Ids(nodes), target \in Ids(nodes),
       sourceHandle \in SourceHandles, targetHandle \in TargetHandles :
        LET conn == [source |-> source, sourceHandle |-> sourceHandle,
                     target |-> target, targetHandle |-> targetHandle]
        IN /\ OnConnectEffect(conn)
           /\ lastOp' = Op("onConnect", <<>>)
           /\ UNCHANGED <<nodeId, copiedNodes, copiedEdges, isAnyModalOpen,
                          initialPositionRef, isDragging, dragging, now>>

-----------------------------------------------------------------------------
(* Dragging a node *)

\* initialPositionRef.current, an object keyed by node id
RefHas(ref, id) == \E r \in ref : r.id = id
RefGet(ref, id) == (CHOOSE r \in ref : r.id = id).position
RefDelete(ref, id) == { r \in ref : r.id # id }

OnNodeDragStart ==
    \E i \in 1..Len(nodes) :
        /\ dragging = NoNode
        /\ initialPositionRef' =
              RefDelete(initialPositionRef, nodes[i].id)
                  \cup {[id |-> nodes[i].id, position |-> nodes[i].position]}
        /\ isDragging' = TRUE
        /\ dragging' = nodes[i].id
        /\ lastOp' = Op("onNodeDragStart", <<>>)
        /\ UNCHANGED <<nodes, edges, nodeId, copiedNodes, copiedEdges,
                       isAnyModalOpen, past, future, now>>

\* the pointer moves the dragged node: a position change through onNodesChange
NodeDrag ==
    \E p \in Positions :
        /\ dragging \in Ids(nodes)
        /\ getNode(Store, dragging).position # p
        /\ SetStore(onNodesChange(Store, <<PositionChange(dragging, p)>>))
        /\ lastOp' = Op("nodeDrag", <<>>)
        /\ UNCHANGED <<nodeId, copiedNodes, copiedEdges, isAnyModalOpen,
                       initialPositionRef, isDragging, past, future, dragging,
                       now>>

\* dx^2 + dy^2, the square of the distance Math.sqrt returns
SquaredDistance(oldPosition, newPosition) ==
    (newPosition.x - oldPosition.x) * (newPosition.x - oldPosition.x)
      + (newPosition.y - oldPosition.y) * (newPosition.y - oldPosition.y)

\* distanceMoved > MINIMUM_MOVE_BEFORE_LOG
ShouldLog(oldPosition, newPosition) ==
    SquaredDistance(oldPosition, newPosition)
        > MINIMUM_MOVE_BEFORE_LOG * MINIMUM_MOVE_BEFORE_LOG

OnNodeDragEndEffect(node) ==
    /\ isDragging' = FALSE
    /\ IF ~RefHas(initialPositionRef, node.id)
       THEN UNCHANGED <<past, future, initialPositionRef>>
       ELSE LET oldPosition == RefGet(initialPositionRef, node.id)
                newPosition == node.position
            IN /\ IF ShouldLog(oldPosition, newPosition)
                  THEN HistoryPush(MoveEntry(node.id, oldPosition, newPosition))
                  ELSE UNCHANGED <<past, future>>
               /\ initialPositionRef' = RefDelete(initialPositionRef, node.id)

\* the node is null when it left the graph during the drag: return
OnNodeDragEnd ==
    /\ dragging # NoNode
    /\ IF dragging \notin Ids(nodes)
       THEN UNCHANGED <<isDragging, past, future, initialPositionRef>>
       ELSE OnNodeDragEndEffect(getNode(Store, dragging))
    /\ dragging' = NoNode
    /\ lastOp' = Op("onNodeDragEnd", <<>>)
    /\ UNCHANGED <<nodes, edges, nodeId, copiedNodes, copiedEdges,
                   isAnyModalOpen, now>>

-----------------------------------------------------------------------------
(* Selection and deletion, driven by the graph library *)

\* a click on a node: a select change through onNodesChange
SelectNode ==
    \E i \in 1..Len(nodes), b \in BOOLEAN :
        /\ nodes[i].selected # b
        /\ SetStore(onNodesChange(Store, <<SelectChange(nodes[i].id, b)>>))
        /\ lastOp' = Op("selectNode", <<>>)
        /\ UNCHANGED <<nodeId, copiedNodes, copiedEdges, isAnyModalOpen,
                       initialPositionRef, isDragging, past, future, dragging,
                       now>>

\* a click on an edge: a select change through onEdgesChange
SelectEdge ==
    \E i \in 1..Len(edges), b \in BOOLEAN :
        /\ edges[i].selected # b
        /\ SetStore(onEdgesChange(Store, <<SelectChange(edges[i].id, b)>>))
        /\ lastOp' = Op("selectEdge", <<>>)
        /\ UNCHANGED <<nodeId, copiedNodes, copiedEdges, isAnyModalOpen,
                       initialPositionRef, isDragging, past, future, dragging,
                       now>>

SelectedIds(s) == Ids(SelectSeq(s, LAMBDA el : el.selected))

\* deleteKeyCode: Backspace or Delete removes the selected nodes and edges
DeleteSelected ==
    /\ SelectedIds(nodes) \cup SelectedIds(edges) # {}
    /\ SetStore(deleteElements(Store, SelectedIds(nodes), SelectedIds(edges)))
    /\ lastOp' = Op("delete", <<>>)
    /\ UNCHANGED <<nodeId, copiedNodes, copiedEdges, isAnyModalOpen,
                   initialPositionRef, isDragging, past, future, dragging, now>>

-----------------------------------------------------------------------------
(* handleKeyDown: copy and paste *)

CopyPasteKeys == {"c", "v"}

\* the early return without the test of the focused element
KeyDownPreventedByModalOnly(modalOpen, isInputField) == modalOpen

\* isAnyModalOpen || isInputField
KeyDownPrevented(modalOpen, isInputField) == modalOpen \/ isInputField

CopyEffect ==
    /\ copiedNodes' = SelectSeq(nodes, LAMBDA node : node.selected)
    /\ copiedEdges' = SelectSeq(edges, LAMBDA edge : edge.selected)

PastedNode(node, newNodeId) ==
    [node EXCEPT !.id = newNodeId,
                 !.position = [x |-> node.position.x + PASTE_OFFSET,
                               y |-> node.position.y + PASTE_OFFSET],
                 !.data.status = Undefined,
                 !.data.output_data = Undefined]

\* every pasted node given the id nodeId, the index forgotten
PastedNodesWithoutIndex ==
    [i \in 1..Len(copiedNodes) |->
        PastedNode(copiedNodes[i], NumToString(nodeId))]

PastedNodes ==
    [i \in 1..Len(copiedNodes) |->
        PastedNode(copiedNodes[i], NumToString(nodeId + (i - 1)))]

\* the endpoint kept as it is, no lookup in oldToNewNodeIDMap
RemappedNever(id) == id

\* oldToNewNodeIDMap[id] ?? id : the last copied node with that id decides
Remapped(id) ==
    LET at == { i \in 1..Len(copiedNodes) : copiedNodes[i].id = id }
    IN IF at = {} THEN id
       ELSE NumToString(nodeId + ((CHOOSE i \in at : \A j \in at : j <= i) - 1))

\* Date.now() is the last token of a pasted edge's id
PastedEdge(edge) ==
    [edge EXCEPT !.id = Remapped(edge.source) \o edge.sourceHandle
                          \o Remapped(edge.target) \o edge.targetHandle
                          \o NumToString(now),
                 !.source = Remapped(edge.source),
                 !.target = Remapped(edge.target)]

\* the existing nodes left as they are
DeselectedNot(node) == node

Deselected(node) == [node EXCEPT !.selected = FALSE]

\* a paste that leaves the nodeId counter where it was
PasteEffectKeepsNodeId ==
    LET S1 == addNodes([Store EXCEPT !.nodes = Map(Deselected, @)], PastedNodes)
        S2 == addEdges(S1, Map(PastedEdge, copiedEdges))
    IN /\ SetStore(S2)
       /\ nodeId' = nodeId

PasteEffect ==
    LET S1 == addNodes([Store EXCEPT !.nodes = Map(Deselected, @)], PastedNodes)
        S2 == addEdges(S1, Map(PastedEdge, copiedEdges))
    IN /\ SetStore(S2)
       /\ nodeId' = nodeId + Len(copiedNodes)

\* Ctrl/Cmd+C or Ctrl/Cmd+V; the clock moves on between two pastes
HandleKeyDown ==
    \E key \in CopyPasteKeys, isInputField \in BOOLEAN :
        /\ IF KeyDownPrevented(isAnyModalOpen, isInputField)
           THEN UNCHANGED <<nodes, edges, nodeId, copiedNodes, copiedEdges, now>>
           ELSE IF key = "c"
           THEN CopyEffect /\ UNCHANGED <<nodes, edges, nodeId, now>>
           ELSE IF Len(copiedNodes) > 0
           THEN /\ PasteEffect
                /\ now' = now + 1
                /\ UNCHANGED <<copiedNodes, copiedEdges>>
           ELSE UNCHANGED <<nodes, edges, nodeId, copiedNodes, copiedEdges, now>>
        /\ lastOp' = Op("handleKeyDown", <<key, isInputField>>)
        /\ UNCHANGED <<isAnyModalOpen, initialPositionRef, isDragging, past,
                       future, dragging>>

-----------------------------------------------------------------------------
(* handleUndo / handleRedo *)

\* history.undo: the top entry is undone and moves to the redo stack
HistoryUndo ==
    LET a == past[Len(past)]
    IN /\ SetStore(EntryUndo(Store, a))
       /\ past' = SubSeq(past, 1, Len(past) - 1)
       /\ future' = Append(future, a)

\* history.redo: the entry undone last is redone and moves back
HistoryRedo ==
    LET a == future[Len(future)]
    IN /\ SetStore(EntryRedo(Store, a))
       /\ future' = SubSeq(future, 1, Len(future) - 1)
       /\ past' = Append(past, a)

HandleUndo ==
    /\ past # <<>>
    /\ HistoryUndo
    /\ lastOp' = Op("handleUndo", <<>>)
    /\ UNCHANGED <<nodeId, copiedNodes, copiedEdges, isAnyModalOpen,
                   initialPositionRef, isDragging, dragging, now>>

HandleRedo ==
    /\ future # <<>>
    /\ HistoryRedo
    /\ lastOp' = Op("handleRedo", <<>>)
    /\ UNCHANGED <<nodeId, copiedNodes, copiedEdges, isAnyModalOpen,
                   initialPositionRef, isDragging, dragging, now>>

-----------------------------------------------------------------------------
(* The surrounding application *)

\* FlowContext.setIsAnyModalOpen
SetIsAnyModalOpen ==
    /\ isAnyModalOpen' = ~isAnyModalOpen
    /\ lastOp' = Op("setIsAnyModalOpen", <<>>)
    /\ UNCHANGED <<nodes, edges, nodeId, copiedNodes, copiedEdges,
                   initialPositionRef, isDragging, past, future, dragging, now>>

\* a run of the graph reports a node's status and output, and its output
\* panel is opened
NodeExecuted ==
    \E i \in 1..Len(nodes) :
        /\ nodes[i].data.status = Undefined
        /\ nodes' = [nodes EXCEPT ![i].data.status = "COMPLETED",
                                  ![i].data.output_data = "output",
                                  ![i].data.isOutputOpen = TRUE]
        /\ lastOp' = Op("nodeExecuted", <<>>)
        /\ UNCHANGED <<edges, nodeId, copiedNodes, copiedEdges, isAnyModalOpen,
                       initialPositionRef, isDragging, past, future, dragging,
                       now>>

-----------------------------------------------------------------------------

\* every event is one step of the session
Tick == steps < MaxSteps /\ steps' = steps + 1

Next ==
    \/ (Tick /\ AddNode)
    \/ (Tick /\ OnConnect)
    \/ (Tick /\ OnNodeDragStart)
    \/ (Tick /\ NodeDrag)
    \/ (Tick /\ OnNodeDragEnd)
    \/ (Tick /\ SelectNode)
    \/ (Tick /\ SelectEdge)
    \/ (Tick /\ DeleteSelected)
    \/ (Tick /\ HandleKeyDown)
    \/ (Tick /\ HandleUndo)
    \/ (Tick /\ HandleRedo)
    \/ (Tick /\ SetIsAnyModalOpen)
    \/ (Tick /\ NodeExecuted)

\* The editing handlers alone (no drag, undo, redo, modal or execution), to
\* follow a longer editing session
EditTick == steps < MaxEditSteps /\ steps' = steps + 1

EditNext ==
    \/ (EditTick /\ AddNode)
    \/ (EditTick /\ OnConnect)
    \/ (EditTick /\ SelectNode)
    \/ (EditTick /\ SelectEdge)
    \/ (EditTick /\ DeleteSelected)
    \/ (EditTick /\ HandleKeyDown)

EditSpec == Init /\ [][EditNext]_vars

Spec == Init /\ [][Next]_vars

-----------------------------------------------------------------------------
(* What the claims observe *)

Last(s) == s[Len(s)]

StoreNext == [nodes |-> nodes', edges |-> edges']

EdgeCore(e) ==
    [id |-> e.id, source |-> e.source, sourceHandle |-> e.sourceHandle,
     target |-> e.target, targetHandle |-> e.targetHandle]

EdgeSet(es) == { EdgeCore(es[i]) : i \in 1..Len(es) }

\* the set of node ids, every node's position and the set of edges
GraphView(S) ==
    [nodeIds |-> Ids(S.nodes),
     positions |-> { <<S.nodes[i].id, S.nodes[i].position>> :
                        i \in 1..Len(S.nodes) },
     edges |-> EdgeSet(S.edges)]

Pushed(type) ==
    /\ Len(past') = Len(past) + 1
    /\ SubSeq(past', 1, Len(past)) = past
    /\ Last(past').type = type
    /\ future' = <<>>

AllCleared(nds) ==
    \A i \in 1..Len(nds) :
        /\ nds[i].data.status = Undefined
        /\ nds[i].data.output_data = Undefined
        /\ nds[i].data.isOutputOpen = FALSE

PasteHappens ==
    /\ lastOp'.name = "handleKeyDown"
    /\ lastOp'.arg[1] = "v"
    /\ ~(isAnyModalOpen \/ lastOp'.arg[2])
    /\ Len(copiedNodes) > 0

PastedIds == { NumToString(nodeId + i) : i \in 0..(Len(copiedNodes) - 1) }

-----------------------------------------------------------------------------
(* Claims *)

DistinctIds(s) == \A i, j \in 1..Len(s) : s[i].id = s[j].id => i = j

AddNodeHappens ==
    lastOp'.name = "addNode" /\ lastOp'.arg[1] \in availableNodes

RedoHappens(type) ==
    /\ lastOp'.name = "handleRedo"
    /\ Last(future).type = type

UndoHappens(type) ==
    /\ lastOp'.name = "handleUndo"
    /\ Last(past).type = type

\* the id of the pasted copy of the copied node id, or id when no copied node
\* has that id
PastedIdOf(id) ==
    IF \E i \in 1..Len(copiedNodes) : copiedNodes[i].id = id
    THEN NumToString(nodeId
             + (CHOOSE i \in 1..Len(copiedNodes) : copiedNodes[i].id = id) - 1)
    ELSE id

\* C1 (as claimed): undo right after addNode, after onConnect or after a
\* logged drag gives back the node ids, the positions and the edges of
\* before that operation (for a drag: the node at its drag-start position).
C1_UndoRestoresGraph ==
    [][ /\ (lastOp'.name \in {"addNode", "onConnect"} /\ past' # past)
            => GraphView(EntryUndo(StoreNext, Last(past'))) = GraphView(Store)
        /\ (lastOp'.name = "onNodeDragEnd" /\ past' # past)
            => GraphView(EntryUndo(StoreNext, Last(past')))
                 = GraphView(updateNode(Store, dragging,
                                        RefGet(initialPositionRef, dragging)))
      ]_vars

\* C2 (as claimed): wherever an undo is possible (and no drag is under
\* way), undo followed at once by redo leaves the node ids, the positions and
\* the edges as before the undo.
C2_UndoRedoRoundTrip ==
    [][ (lastOp'.name = "handleUndo" /\ dragging = NoNode)
            => GraphView(EntryRedo(StoreNext, Last(future'))) = GraphView(Store)
      ]_vars

\* C3: a successful addNode pushes exactly one ADD_NODE entry, onConnect
\* exactly one ADD_EDGE entry, a drag end either nothing or exactly one
\* UPDATE_NODE_POSITION entry; undo and redo only move the top entry between
\* the two stacks; no other handler touches the history.
C3_OnlyThreeKindsArePushed ==
    [][ /\ (lastOp'.name = "addNode" /\ lastOp'.arg[1] \in availableNodes)
            => Pushed("ADD_NODE")
        /\ (lastOp'.name = "addNode" /\ lastOp'.arg[1] \notin availableNodes)
            => UNCHANGED <<past, future>>
        /\ lastOp'.name = "onConnect" => Pushed("ADD_EDGE")
        /\ lastOp'.name = "onNodeDragEnd"
            => (Pushed("UPDATE_NODE_POSITION") \/ UNCHANGED <<past, future>>)
        /\ lastOp'.name = "handleUndo"
            => /\ past' = SubSeq(past, 1, Len(past) - 1)
               /\ future' = Append(future, Last(past))
        /\ lastOp'.name = "handleRedo"
            => /\ future' = SubSeq(future, 1, Len(future) - 1)
               /\ past' = Append(past, Last(future))
        /\ lastOp'.name \in {"handleKeyDown", "delete", "selectNode",
                             "selectEdge", "nodeDrag", "onNodeDragStart",
                             "setIsAnyModalOpen", "nodeExecuted"}
            => UNCHANGED <<past, future>>
      ]_vars

\* C3 witness: the history holds an entry of each of the three kinds
C3_Witness ==
    \A t \in {"ADD_NODE", "ADD_EDGE", "UPDATE_NODE_POSITION"} :
        \E i \in 1..Len(past) : past[i].type = t

\* C4 (as claimed): the source and the target of every edge are nodes of
\* the graph.
C4_NoDanglingEdge ==
    \A i \in 1..Len(edges) :
        edges[i].source \in Ids(nodes) /\ edges[i].target \in Ids(nodes)

\* C5 (as claimed): a drag end pushes an entry exactly when the distance
\* from the drag-start position is at least MINIMUM_MOVE_BEFORE_LOG.
C5_LoggedIffAtLeastMinimum ==
    [][ (/\ lastOp'.name = "onNodeDragEnd"
         /\ dragging \in Ids(nodes)
         /\ RefHas(initialPositionRef, dragging))
            => ((past' # past)
                 <=> SquaredDistance(RefGet(initialPositionRef, dragging),
                                     getNode(Store, dragging).position)
                       >= MINIMUM_MOVE_BEFORE_LOG * MINIMUM_MOVE_BEFORE_LOG)
      ]_vars

\* C6 (as claimed): whenever the set of edges changes, every node ends with
\* status and output_data undefined and its output panel closed.
C6_ClearedOnEveryEdgeChange ==
    [][ EdgeSet(edges') # EdgeSet(edges) => AllCleared(nodes') ]_vars

\* C7 (as claimed): every connection of every node names an edge of the
\* edge set.
C7_ConnectionsNameLiveEdges ==
    \A i \in 1..Len(nodes) :
        \A k \in 1..Len(nodes[i].data.connections) :
            nodes[i].data.connections[k].edge_id \in Ids(edges)

\* C8: a copy or paste keydown while a modal is open or the focus is in an
\* input leaves the clipboard, the nodes, the edges, the selection and the
\* nodeId counter unchanged.
C8_PreventedKeyDownChangesNothing ==
    [][ (/\ lastOp'.name = "handleKeyDown"
         /\ (isAnyModalOpen \/ lastOp'.arg[2]))
            => UNCHANGED <<copiedNodes, copiedEdges, nodes, edges, nodeId>>
      ]_vars

\* C8 witness: a paste keydown was prevented although nodes are copied, or
\* a copy keydown although the selection differs from the clipboard
C8_Witness ==
    /\ lastOp.name = "handleKeyDown"
    /\ (isAnyModalOpen \/ lastOp.arg[2])
    /\ \/ lastOp.arg[1] = "v" /\ Len(copiedNodes) > 0
       \/ /\ lastOp.arg[1] = "c"
          /\ copiedNodes # SelectSeq(nodes, LAMBDA node : node.selected)

\* C9: a paste of k > 0 copied nodes adds exactly k nodes; the i-th has id
\* nodeId+i, the copied node's position moved by 20 in x and in y, and no
\* status nor output; nodeId grows by k; the nodes of before keep their ids
\* and positions.
C9_PasteAddsOneNodePerCopiedNode ==
    [][ PasteHappens
            => /\ Len(nodes') = Len(nodes) + Len(copiedNodes)
               /\ nodeId' = nodeId + Len(copiedNodes)
               /\ \A i \in 1..Len(nodes) :
                     /\ nodes'[i].id = nodes[i].id
                     /\ nodes'[i].position = nodes[i].position
               /\ \A i \in 1..Len(copiedNodes) :
                     LET n == nodes'[Len(nodes) + i]
                     IN /\ n.id = NumToString(nodeId + (i - 1))
                        /\ n.id \notin Ids(nodes)
                        /\ n.position.x = copiedNodes[i].position.x + 20
                        /\ n.position.y = copiedNodes[i].position.y + 20
                        /\ n.data.status = Undefined
                        /\ n.data.output_data = Undefined
      ]_vars

\* C9 witness: two nodes were pasted into a graph that held nodes already
C9_Witness ==
    /\ lastOp.name = "handleKeyDown"
    /\ lastOp.arg[1] = "v"
    /\ ~(isAnyModalOpen \/ lastOp.arg[2])
    /\ Len(copiedNodes) = 2
    /\ Len(nodes) > 2
    /\ nodeId > 2

\* C10: after a paste of copied nodes the selected nodes are exactly the
\* pasted ones: no node of before the paste is selected.
C10_PasteSelectsOnlyPastedNodes ==
    [][ PasteHappens
            => \A i \in 1..Len(nodes') :
                  nodes'[i].selected <=> (nodes'[i].id \in PastedIds)
      ]_vars

\* C10 witness: a paste into a graph that still holds the copied node, which
\* is no longer selected
C10_Witness ==
    /\ lastOp.name = "handleKeyDown"
    /\ lastOp.arg[1] = "v"
    /\ ~(isAnyModalOpen \/ lastOp.arg[2])
    /\ Len(copiedNodes) > 0
    /\ \E i \in 1..Len(nodes) :
          nodes[i].id = copiedNodes[1].id /\ ~nodes[i].selected
    /\ \E i \in 1..Len(nodes) : nodes[i].selected

\* C11: addNode with a block id that has no entry in availableNodes changes
\* nothing: the nodes (with their status and output), the edges, the nodeId
\* counter and the history are what they were.
C11_UnknownBlockChangesNothing ==
    [][ (lastOp'.name = "addNode" /\ lastOp'.arg[1] \notin availableNodes)
            => /\ nodes' = nodes
               /\ edges' = edges
               /\ nodeId' = nodeId
               /\ past' = past
               /\ future' = future
      ]_vars

\* C11 witness: addNode of an unknown block on a graph that holds an edge, a
\* node with a status and an entry to redo
C11_Witness ==
    /\ lastOp.name = "addNode"
    /\ lastOp.arg[1] \notin availableNodes
    /\ Len(edges) > 0
    /\ \E i \in 1..Len(nodes) : nodes[i].data.status # Undefined
    /\ Len(future) > 0

\* C12: node ids stay pairwise distinct: the id addNode hands out (nodeId),
\* the ids a paste hands out (nodeId + index) and the id of the node a redo
\* of ADD_NODE adds again are the id of no node already in the graph, and
\* after every step no two nodes of the graph have the same id.
C12_NodeIdsAreDistinct ==
    [][ /\ DistinctIds(nodes')
        /\ AddNodeHappens => NumToString(nodeId) \notin Ids(nodes)
        /\ PasteHappens => PastedIds \cap Ids(nodes) = {}
        /\ RedoHappens("ADD_NODE") => Last(future).node.id \notin Ids(nodes)
      ]_vars

\* C12 witness: a redo of ADD_NODE has put its node back into a graph that
\* holds a pasted node
C12_Witness ==
    /\ lastOp.name = "handleRedo"
    /\ Last(past).type = "ADD_NODE"
    /\ Last(past).node.id \in Ids(nodes)
    /\ Len(nodes) >= 2
    /\ \E i \in 1..Len(nodes) : nodes[i].position.x = PASTE_OFFSET

\* C13 (as claimed): edge ids stay pairwise distinct: the edge onConnect
\* makes and the edge a redo of ADD_EDGE adds again have the id of no edge
\* already in the edge set, after every step no two edges have the same id,
\* and an undo of ADD_EDGE takes exactly one edge out of the edge set.
C13_EdgeIdsAreDistinct ==
    [][ /\ DistinctIds(edges')
        /\ lastOp'.name = "onConnect"
              => Last(past').edge.id \notin Ids(edges)
        /\ RedoHappens("ADD_EDGE") => Last(future).edge.id \notin Ids(edges)
        /\ UndoHappens("ADD_EDGE") => Len(edges') = Len(edges) - 1
      ]_vars

\* C14 (as claimed): every connection of a node has the node as its source
\* or as its target.
C14_ConnectionsAreTheNodesOwn ==
    \A i \in 1..Len(nodes) :
        \A k \in 1..Len(nodes[i].data.connections) :
            \/ nodes[i].data.connections[k].source = nodes[i].id
            \/ nodes[i].data.connections[k].target = nodes[i].id

====
